---- MODULE Spec2Model ----
(***************************************************************************)
(* Concept consolidation of the past-paper analyzer: text_analyzer.main    *)
(* drives process_and_store_concepts over the unprocessed papers, which    *)
(* folds the extracted candidate records into the Concept,                 *)
(* ConceptRelation and Occurrence tables through one SQLAlchemy session    *)
(* per paper (autoflush disabled), and marks the paper processed when the  *)
(* call reports a positive count.  pdf_processor.main marks papers         *)
(* processed as well.                                                      *)
(*                                                                         *)
(* Confidence and strength values are counted in tenths (1.0 is 10).       *)
(* The empty string stands for both None and "" (the code only tests       *)
(* truthiness of category, description, parent_concept and related names). *)
(***************************************************************************)
EXTENDS Integers, Sequences, FiniteSets, TLC

\* ---------------------------------------------------------------- bounds
\* registered papers
NumPapers == 2
\* records with distinct lower-cased names in one extraction output
MaxCands == 3
\* calls of process_and_store_concepts
MaxAttempts == 2
\* paragraphs that a combined context may reach
MaxJoin == 3

\* ------------------------------------------------------ program constants
RATE_LIMIT_BATCH_SIZE == 5

Papers == 1..NumPapers

VARIABLES
    workload,       \* family of records the extraction step returns in this behaviour
    processed_at,   \* Paper.processed_at is set, per paper id
    store,          \* committed rows: concepts, relations, occurrences
    session,        \* the open session: flushed rows of its transaction and pending objects
    pc,             \* position of text_analyzer.main
    batch,          \* papers of the current run still to be visited
    paper,          \* paper being processed (0 when none)
    all_names,      \* names of the records of all_concepts read so far
    concepts_data,  \* candidate records of the current paper (values of concept_map)
    i,              \* index of the next candidate in concepts_data
    stored_count,   \* stored_count of process_and_store_concepts
    concept_count,  \* value returned by process_and_store_concepts
    attempts,       \* number of extraction calls made so far
    last_error      \* exception caught last for the current paper ("" when none)

vars == <<workload, processed_at, store, session, pc, batch, paper, all_names,
          concepts_data, i, stored_count, concept_count, attempts, last_error>>

\* ------------------------------------------------------------ confidence
Num(v) == [t |-> "num", v |-> v]
StrConf == [t |-> "str", v |-> 0]
AbsentConf == [t |-> "absent", v |-> 0]

Min2(a, b) == IF a < b THEN a ELSE b
Max2(a, b) == IF a > b THEN a ELSE b

\* min(max(x, 0.0), 1.0)
Clamp(x) == Min2(Max2(x, 0), 10)

\* concept_data.get("confidence", 1.0)
GetConfidence(cd) == IF cd.confidence.t = "absent" THEN Num(10) ELSE cd.confidence

\* --------------------------------------------------------------- records
\* a record of the extraction output; name, confidence and related_concepts
\* may be missing. context is the sequence of the paragraphs of the context
\* string (joined by a blank line). related_shape tells what the JSON value of
\* related_concepts is: a list of names, one string (held as the only element
\* of related_concepts) or nothing
Candidate(n, cat, desc, conf, rel, par) ==
    [has_name |-> TRUE, name |-> n, category |-> cat, description |-> desc,
     confidence |-> conf, context |-> <<"c1">>, related_shape |-> "list",
     related_concepts |-> rel, parent_concept |-> par]

\* the characters of a string, as "for related_name in related_names" and
\* set(...) visit them
Chars(str) ==
    IF str = "" THEN <<>>
    ELSE IF str = "AB" THEN <<"A", "B">>
    ELSE <<str>>

\* what iterating over concept_data["related_concepts"] yields
RelatedNames(cd) ==
    IF cd.related_shape = "str" THEN Chars(cd.related_concepts[1])
    ELSE IF cd.related_shape = "absent" THEN <<>>
    ELSE cd.related_concepts

\* a record without the key "name"
Nameless ==
    [has_name |-> FALSE, name |-> "", category |-> "", description |-> "",
     confidence |-> Num(5), context |-> <<"c1">>, related_shape |-> "list",
     related_concepts |-> <<>>, parent_concept |-> ""]

ConceptRow(n, cat, desc) ==
    [name |-> n, category |-> cat, description |-> desc, parent_concept_id |-> 0]

RelationRow(c1, c2, rtype, strength) ==
    [concept1_id |-> c1, concept2_id |-> c2, relation_type |-> rtype,
     strength |-> Clamp(strength)]

OccurrenceRowUnclamped(cid, pid, conf) ==
    [concept_id |-> cid, paper_id |-> pid, confidence |-> conf]

OccurrenceRow(cid, pid, conf) ==
    [concept_id |-> cid, paper_id |-> pid, confidence |-> Clamp(conf)]

EmptyStore == [concepts |-> <<>>, relations |-> <<>>, occurrences |-> <<>>]

\* SessionLocal(): a session sees the committed rows and has nothing pending
OpenSession(st) ==
    [concepts |-> st.concepts, relations |-> st.relations,
     occurrences |-> st.occurrences,
     new_relations |-> <<>>, new_occurrences |-> <<>>]

\* db.flush(): pending objects are written into the transaction
Flush(s) ==
    [s EXCEPT !.relations = @ \o s.new_relations,
              !.occurrences = @ \o s.new_occurrences,
              !.new_relations = <<>>,
              !.new_occurrences = <<>>]

\* a rollback that empties the transaction but keeps the pending objects
RollbackKeepsPending(s, st) ==
    [OpenSession(st) EXCEPT !.new_relations = s.new_relations,
                            !.new_occurrences = s.new_occurrences]

\* db.rollback(): the transaction's rows and the pending objects are gone, the
\* session sees the committed rows again
Rollback(s, st) == OpenSession(st)

\* db.commit(): flush, then the transaction's rows become the committed rows
Committed(s) ==
    LET f == Flush(s)
    IN [concepts |-> f.concepts, relations |-> f.relations,
        occurrences |-> f.occurrences]

\* ------------------------------------------------------------ queries
\* db.query(Concept).filter(Concept.name == name).first(): id of the row, 0 for None
FindConceptNever(concepts, name) == 0

FindConcept(concepts, name) ==
    IF \E k \in 1..Len(concepts) : concepts[k].name = name
    THEN CHOOSE k \in 1..Len(concepts) :
            /\ concepts[k].name = name
            /\ \A j \in 1..(k - 1) : concepts[j].name # name
    ELSE 0

\* db.query(ConceptRelation).filter(concept1_id == c1, concept2_id == c2).first()
\* is not None; the query reads flushed rows only (autoflush=False)
FindRelationUndirected(s, c1, c2) ==
    \E k \in 1..Len(s.relations) :
        \/ /\ s.relations[k].concept1_id = c1
           /\ s.relations[k].concept2_id = c2
        \/ /\ s.relations[k].concept1_id = c2
           /\ s.relations[k].concept2_id = c1

FindRelation(s, c1, c2) ==
    \E k \in 1..Len(s.relations) :
        /\ s.relations[k].concept1_id = c1
        /\ s.relations[k].concept2_id = c2

\* a unique index that takes names differing in letter case as equal
UniqueViolationNoCase(concepts, name) ==
    \E k \in 1..Len(concepts) :
        \/ concepts[k].name = name
        \/ {concepts[k].name, name} \in {{"A", "a"}, {"B", "b"}}

\* unique=True on Concept.name: the INSERT of a second row with the name fails
UniqueViolation(concepts, name) ==
    \E k \in 1..Len(concepts) : concepts[k].name = name

\* db.add(Concept(...)); db.flush()
InsertConcept(s, name, category, description) ==
    IF UniqueViolation(s.concepts, name)
    THEN [ok |-> FALSE, err |-> "IntegrityError", s |-> s, id |-> 0]
    ELSE [ok |-> TRUE, err |-> "",
          s |-> Flush([s EXCEPT !.concepts =
                          Append(@, ConceptRow(name, category, description))]),
          id |-> Len(s.concepts) + 1]

\* find-or-create of a bare concept by name (related and parent concepts)
FindOrCreate(s, name) ==
    LET found == FindConcept(s.concepts, name)
    IN IF found # 0
       THEN [ok |-> TRUE, err |-> "", s |-> s, id |-> found]
       ELSE InsertConcept(s, name, "", "")

\* "if not concept.f and concept_data.get(f): concept.f = concept_data[f]"
FillAlways(old, new) == IF new # "" THEN new ELSE old

FillIfEmpty(old, new) == IF old = "" /\ new # "" THEN new ELSE old

\* ------------------------------------------------------- store_concept
StoreConcept(s, cd, pid) ==
    LET existing == FindConcept(s.concepts, cd.name)
        r == IF existing # 0
             THEN [ok |-> TRUE, err |-> "",
                   s |-> [s EXCEPT
                            !.concepts[existing].category =
                                FillIfEmpty(@, cd.category),
                            !.concepts[existing].description =
                                FillIfEmpty(@, cd.description)],
                   id |-> existing]
             ELSE InsertConcept(s, cd.name, cd.category, cd.description)
        conf == GetConfidence(cd)
    IN IF ~cd.has_name
       THEN [ok |-> FALSE, err |-> "KeyError: 'name'", s |-> s, id |-> 0]
       ELSE IF ~r.ok THEN r
       ELSE IF conf.t # "num"
       THEN [ok |-> FALSE, err |-> "TypeError", s |-> r.s, id |-> r.id]
       ELSE [ok |-> TRUE, err |-> "",
             s |-> [r.s EXCEPT !.new_occurrences =
                        Append(@, OccurrenceRow(r.id, pid, conf.v))],
             id |-> r.id]

\* --------------------------------------------- store_concept_relations
\* a relation that is met again is deleted and created anew
AddRelationReplaces(s, c1, c2) ==
    [s EXCEPT !.relations =
                 SelectSeq(@, LAMBDA r : ~(r.concept1_id = c1 /\ r.concept2_id = c2)),
              !.new_relations = Append(@, RelationRow(c1, c2, "related", 10))]

\* "if not existing:" db.add(ConceptRelation(concept1_id, concept2_id,
\* relation_type="related")), with the default strength 1.0
AddRelation(s, c1, c2) ==
    IF FindRelation(s, c1, c2) THEN s
    ELSE [s EXCEPT !.new_relations = Append(@, RelationRow(c1, c2, "related", 10))]

RECURSIVE StoreConceptRelations(_, _, _)
StoreConceptRelations(s, cid, related_names) ==
    IF related_names = <<>> THEN [ok |-> TRUE, err |-> "", s |-> s, id |-> cid]
    ELSE LET related_name == Head(related_names)
         IN IF related_name = ""
            THEN StoreConceptRelations(s, cid, Tail(related_names))
            ELSE LET r == FindOrCreate(s, related_name)
                 IN IF ~r.ok THEN r
                    ELSE StoreConceptRelations(AddRelation(r.s, cid, r.id),
                                               cid, Tail(related_names))

\* ------------------------------- parent relation of one candidate
StoreParent(s, cid, cd) ==
    IF cd.parent_concept = "" THEN [ok |-> TRUE, err |-> "", s |-> s, id |-> cid]
    ELSE LET r == FindOrCreate(s, cd.parent_concept)
         IN IF ~r.ok THEN r
            ELSE [ok |-> TRUE, err |-> "",
                  s |-> [r.s EXCEPT !.concepts[cid].parent_concept_id = r.id],
                  id |-> cid]

\* body of the try block for one candidate
StoreCandidateBody(s, cd, pid) ==
    LET r1 == StoreConcept(s, cd, pid)
    IN IF ~r1.ok THEN r1
       ELSE LET r2 == IF RelatedNames(cd) # <<>>
                      THEN StoreConceptRelations(r1.s, r1.id, RelatedNames(cd))
                      ELSE r1
            IN IF ~r2.ok THEN r2
               ELSE StoreParent(r2.s, r1.id, cd)

\* the for loop over concepts_data from candidate k on
RECURSIVE StoreFrom(_, _, _, _, _)
StoreFrom(s, st, cds, pid, k) ==
    IF k > Len(cds) THEN s
    ELSE LET r == StoreCandidateBody(s, cds[k], pid)
         IN StoreFrom(IF r.ok THEN r.s ELSE Rollback(s, st), st, cds, pid, k + 1)

\* the committed rows after the with block of process_and_store_concepts has
\* run for the candidates cds of paper pid on the committed rows st
ProcessDocument(st, cds, pid) ==
    Committed(StoreFrom(OpenSession(st), st, cds, pid, 1))

\* ------------------------------------------------ _deduplicate_concepts
\* str.lower() on the names the extraction step can return
Lower(n) == IF n = "A" THEN "a" ELSE IF n = "B" THEN "b" ELSE n

SeqToSet(q) == {q[k] : k \in 1..Len(q)}

\* list(set): the elements of a set of names, each once
RECURSIVE SetToList(_)
SetToList(S) ==
    IF S = {} THEN <<>>
    ELSE LET x == CHOOSE y \in S : TRUE IN <<x>> \o SetToList(S \ {x})

\* max(existing["confidence"], concept["confidence"]) raises KeyError when a
\* record has no confidence and TypeError when a string meets a number
MaxRaises(a, b) == a.t = "absent" \/ b.t = "absent" \/ a.t # b.t

MaxError(a, b) ==
    IF a.t = "absent" \/ b.t = "absent" THEN "KeyError: 'confidence'"
    ELSE "TypeError"

\* the confidence of the record read last
LastConf(a, b) == b

MaxConf(a, b) == IF a.t = "num" /\ b.v > a.v THEN b ELSE a

\* "if existing[context] != concept[context]": the incoming context is joined
\* to the accumulated one
CombineContexts(existing, context) ==
    IF existing # context THEN existing \o context ELSE existing

KeyIndex(acc, key) ==
    IF \E k \in 1..Len(acc) : Lower(acc[k].name) = key
    THEN CHOOSE k \in 1..Len(acc) : Lower(acc[k].name) = key
    ELSE 0

\* one iteration of "for concept in concepts" over concept_map, whose values
\* are kept in insertion order
DeduplicateStep(acc, concept) ==
    LET pos == KeyIndex(acc, Lower(concept.name))
    IN IF ~concept.has_name
       THEN [ok |-> FALSE, err |-> "KeyError: 'name'", list |-> <<>>]
       ELSE IF pos = 0
       THEN [ok |-> TRUE, err |-> "", list |-> Append(acc, concept)]
       ELSE IF MaxRaises(acc[pos].confidence, concept.confidence)
       THEN [ok |-> FALSE,
             err |-> MaxError(acc[pos].confidence, concept.confidence),
             list |-> <<>>]
       ELSE IF "absent" \in {acc[pos].related_shape, concept.related_shape}
       THEN [ok |-> FALSE, err |-> "KeyError: 'related_concepts'",
             list |-> <<>>]
       ELSE [ok |-> TRUE, err |-> "",
             list |-> [acc EXCEPT
                         ![pos].confidence = MaxConf(@, concept.confidence),
                         ![pos].context = CombineContexts(@, concept.context),
                         ![pos].related_shape = "list",
                         ![pos].related_concepts =
                             SetToList(SeqToSet(RelatedNames(acc[pos])) \cup
                                       SeqToSet(RelatedNames(concept)))]]

\* ------------------------------------------------- extraction outputs
Workloads ==
    {"fields", "confidence", "relations", "hierarchy", "names", "interrupted",
     "shapes", "duplicates", "limited", "concurrent", "nameless",
     "cases"}

Plain(n) == Candidate(n, "", "", Num(5), <<>>, "")

Records(w) ==
    CASE w = "fields" ->
           {Candidate("A", cat, desc, Num(5), <<>>, "") :
               cat \in {"", "Algorithms", "Networking"},
               desc \in {"", "d1", "d2"}}
      [] w = "confidence" ->
           {Candidate("A", "", "", conf, <<>>, "") :
               conf \in {Num(0 - 3), Num(5), Num(15), StrConf, AbsentConf}}
           \cup {Candidate("B", "", "", conf, <<>>, "") :
                    conf \in {Num(0 - 3), StrConf}}
      [] w = "relations" ->
           {Candidate("A", "", "", Num(5), rel, "") :
               rel \in {<<>>, <<"A">>, <<"B">>, <<"B", "B">>, <<"", "B">>}}
           \cup {Candidate("B", "", "", Num(5), rel, "") :
                    rel \in {<<>>, <<"A">>}}
      [] w = "hierarchy" ->
           {Candidate("A", "", "", Num(5), <<>>, par) :
               par \in {"", "A", "B", "C"}}
           \cup {Candidate("B", "", "", Num(5), <<>>, par) :
                    par \in {"", "A"}}
      [] w = "names" ->
           {Plain(n) : n \in {"", "A", "B"}}
      [] w = "cases" ->
           {Plain(n) : n \in {"A", "a", "B"}}
      [] w = "nameless" ->
           {Plain("A"), Plain("B"), Nameless}
      [] w = "interrupted" ->
           {Plain(n) : n \in {"A", "B"}}
      [] w = "shapes" ->
           {[Candidate("A", "", "", Num(5), <<str>>, "")
                EXCEPT !.related_shape = "str"] : str \in {"AB", "B"}}
           \cup {[Plain("A") EXCEPT !.related_shape = "absent"],
                 Candidate("B", "", "", Num(5), <<"A">>, "")}
      [] w = "limited" ->
           {Plain("A")}
      [] w = "concurrent" ->
           {Plain("A"), Plain("B"), Candidate("A", "", "", Num(5), <<"B">>, "")}
      [] w = "duplicates" ->
           {[Candidate("A", "", "", Num(3), <<"B">>, "")
                EXCEPT !.context = <<"c1">>],
            [Candidate("A", "", "", Num(7), <<"C">>, "")
                EXCEPT !.context = <<"c2">>],
            Plain("B")}

\* ------------------------------------------------ get_papers_for_processing
\* the selection without the filter on processed_at
Unfiltered(flags, p) == [k \in 1..(NumPapers - p + 1) |-> p + k - 1]

RECURSIVE Unprocessed(_, _)
Unprocessed(flags, p) ==
    IF p > NumPapers THEN <<>>
    ELSE (IF flags[p] THEN <<>> ELSE <<p>>) \o Unprocessed(flags, p + 1)

Limit(q, n) == SubSeq(q, 1, Min2(Len(q), n))

GetPapersForProcessing(flags, limit) == Limit(Unprocessed(flags, 1), limit)

\* config.RATE_LIMIT_BATCH_SIZE: the default, or 1 where the environment of the
\* workload "limited" sets RATE_LIMIT_BATCH_SIZE=1
BatchSize(w) == IF w = "limited" THEN 1 ELSE RATE_LIMIT_BATCH_SIZE

\* ----------------------------------------------------------------- Init
Init ==
    /\ workload \in Workloads
    /\ processed_at = [p \in Papers |-> FALSE]
    /\ store = EmptyStore
    /\ session = OpenSession(EmptyStore)
    /\ pc = "idle"
    /\ batch = <<>>
    /\ paper = 0
    /\ all_names = {}
    /\ concepts_data = <<>>
    /\ i = 0
    /\ stored_count = 0
    /\ concept_count = 0
    /\ attempts = 0
    /\ last_error = ""

\* -------------------------------------------------- text_analyzer.main
\* papers = ingestor.get_papers_for_processing(limit=RATE_LIMIT_BATCH_SIZE)
MainStart ==
    /\ pc = "idle"
    /\ GetPapersForProcessing(processed_at, BatchSize(workload)) # <<>>
    /\ batch' = GetPapersForProcessing(processed_at, BatchSize(workload))
    /\ pc' = "loop"
    /\ UNCHANGED <<workload, processed_at, store, session, paper, all_names,
                   concepts_data, i, stored_count, concept_count, attempts,
                   last_error>>

\* the for loop is exhausted
MainEnd ==
    /\ pc = "loop"
    /\ batch = <<>>
    /\ pc' = "idle"
    /\ paper' = 0
    /\ all_names' = {}
    /\ concepts_data' = <<>>
    /\ i' = 0
    /\ stored_count' = 0
    /\ concept_count' = 0
    /\ last_error' = ""
    /\ UNCHANGED <<workload, processed_at, store, session, batch, attempts>>

\* "PDF file not found ..., skipping.": the iteration ends before
\* process_and_store_concepts is called
SkipPaper ==
    /\ pc = "loop"
    /\ batch # <<>>
    /\ paper' = Head(batch)
    /\ batch' = Tail(batch)
    /\ all_names' = {}
    /\ concepts_data' = <<>>
    /\ i' = 0
    /\ stored_count' = 0
    /\ concept_count' = 0
    /\ last_error' = ""
    /\ UNCHANGED <<workload, processed_at, store, session, pc, attempts>>

\* process_and_store_concepts is called for the next paper of the batch; the
\* calls are counted and bounded except in the workload "limited", whose
\* papers are committed at most once each, so that its runs can go on for ever
Extract ==
    /\ pc = "loop"
    /\ batch # <<>>
    /\ attempts < MaxAttempts \/ workload = "limited"
    /\ paper' = Head(batch)
    /\ batch' = Tail(batch)
    /\ attempts' = IF workload = "limited" THEN attempts ELSE attempts + 1
    /\ all_names' = {}
    /\ concepts_data' = <<>>
    /\ i' = 0
    /\ stored_count' = 0
    /\ concept_count' = 0
    /\ last_error' = ""
    /\ pc' = "extracting"
    /\ UNCHANGED <<workload, processed_at, store, session>>

\* the extraction raises or returns an empty list: return 0
ExtractNothing ==
    /\ pc = "extracting"
    /\ concepts_data = <<>>
    /\ pc' = "mark"
    /\ UNCHANGED <<workload, processed_at, store, session, batch, paper,
                   all_names, concepts_data, i, stored_count, concept_count,
                   attempts, last_error>>

\* _deduplicate_concepts reads the next record of the extraction output; an
\* exception ends process_and_store_concepts with return 0
Deduplicate ==
    /\ pc = "extracting"
    /\ Len(concepts_data) < MaxCands
    /\ \E concept \in Records(workload) :
          LET d == DeduplicateStep(concepts_data, concept)
          IN /\ \A k \in 1..Len(d.list) : Len(d.list[k].context) <= MaxJoin
             /\ concepts_data' = d.list
             /\ all_names' = IF concept.has_name
                             THEN all_names \cup {concept.name}
                             ELSE all_names
             /\ last_error' = d.err
             /\ pc' = IF d.ok THEN "extracting" ELSE "mark"
    /\ UNCHANGED <<workload, processed_at, store, session, batch, paper, i,
                   stored_count, concept_count, attempts>>

\* the extraction output is exhausted: "with next(get_db()) as db"
OpenDb ==
    /\ pc = "extracting"
    /\ concepts_data # <<>>
    /\ session' = OpenSession(store)
    /\ i' = 1
    /\ pc' = "storing"
    /\ UNCHANGED <<workload, processed_at, store, batch, paper, all_names,
                   concepts_data, stored_count, concept_count, attempts,
                   last_error>>

\* "with next(get_db()) as db" raises: the exception leaves
\* process_and_store_concepts, main prints it ("except Exception as e") and
\* goes on with the next paper
OpenDbFails ==
    /\ pc = "extracting"
    /\ concepts_data # <<>>
    /\ pc' = "loop"
    /\ all_names' = {}
    /\ concepts_data' = <<>>
    /\ last_error' = "OperationalError"
    /\ UNCHANGED <<workload, processed_at, store, session, batch, paper, i,
                   stored_count, concept_count, attempts>>

\* one iteration of "for i, concept_data in enumerate(concepts_data)"
StoreCandidate ==
    /\ pc = "storing"
    /\ i <= Len(concepts_data)
    /\ LET r == StoreCandidateBody(session, concepts_data[i], paper)
       IN IF r.ok
          THEN /\ session' = r.s
               /\ stored_count' = stored_count + 1
               /\ last_error' = ""
          ELSE \* except Exception: db.rollback(); continue
               /\ session' = Rollback(session, store)
               /\ stored_count' = stored_count
               /\ last_error' = r.err
    /\ i' = i + 1
    /\ UNCHANGED <<workload, processed_at, store, pc, batch, paper,
                   all_names, concepts_data, concept_count, attempts>>

\* db.commit() succeeds: return stored_count
Commit ==
    /\ pc = "storing"
    /\ i > Len(concepts_data)
    /\ store' = Committed(session)
    /\ session' = OpenSession(Committed(session))
    /\ concept_count' = stored_count
    /\ pc' = "mark"
    /\ UNCHANGED <<workload, processed_at, batch, paper, all_names,
                   concepts_data, i, stored_count, attempts, last_error>>

\* the value returned after a failed commit, with stored candidates counted,
\* if the count were returned all the same
CommitErrorKeepsCount(count) == count

\* "return 0" of the except branch of db.commit()
CommitErrorResult(count) == 0

\* db.commit() raises: db.rollback(); return 0
CommitFails ==
    /\ pc = "storing"
    /\ i > Len(concepts_data)
    /\ session' = Rollback(session, store)
    /\ concept_count' = CommitErrorResult(stored_count)
    /\ pc' = "mark"
    /\ UNCHANGED <<workload, processed_at, store, batch, paper, all_names,
                   concepts_data, i, stored_count, attempts, last_error>>

\* the paper marked whatever the count is
ShouldMarkAlways(count) == TRUE

\* "if concept_count > 0:"
ShouldMark(count) == count > 0

\* "if concept_count > 0: ingestor.mark_paper_processed(paper.id)"
MarkProcessed ==
    /\ pc = "mark"
    /\ processed_at' = IF ShouldMark(concept_count)
                       THEN [processed_at EXCEPT ![paper] = TRUE]
                       ELSE processed_at
    /\ pc' = "loop"
    /\ UNCHANGED <<workload, store, session, batch, paper, all_names,
                   concepts_data, i, stored_count, concept_count, attempts,
                   last_error>>

\* ------------------------------------------------- pdf_processor.main
\* every unprocessed paper whose text extraction succeeds is marked processed
PdfProcessorMain ==
    /\ pc = "idle"
    /\ \E done \in SUBSET {p \in Papers : ~processed_at[p]} :
          /\ done # {}
          /\ processed_at' = [p \in Papers |-> processed_at[p] \/ p \in done]
    /\ UNCHANGED <<workload, store, session, pc, batch, paper, all_names,
                   concepts_data, i, stored_count, concept_count, attempts,
                   last_error>>

\* ------------------------------------------------- interruption
\* the process is interrupted (KeyboardInterrupt and SystemExit are not caught
\* by "except Exception"): the with block closes the session, which discards
\* what is not committed; the runs of the workload "interrupted" are the ones
\* that are interrupted
Stop ==
    /\ workload = "interrupted"
    /\ pc # "idle"
    /\ pc' = "idle"
    /\ batch' = <<>>
    /\ paper' = 0
    /\ all_names' = {}
    /\ concepts_data' = <<>>
    /\ i' = 0
    /\ stored_count' = 0
    /\ concept_count' = 0
    /\ last_error' = ""
    /\ session' = OpenSession(store)
    /\ UNCHANGED <<workload, processed_at, store, attempts>>

Next ==
    \/ MainStart
    \/ MainEnd
    \/ SkipPaper
    \/ Extract
    \/ ExtractNothing
    \/ Deduplicate
    \/ OpenDb
    \/ OpenDbFails
    \/ StoreCandidate
    \/ Commit
    \/ CommitFails
    \/ MarkProcessed
    \/ PdfProcessorMain
    \/ Stop

Spec == Init /\ [][Next]_vars

\* ------------------------------------------- a second process
\* the paper that another process, with a session of its own, consolidates
\* while this one is in its storing loop
Other == NumPapers + 1

\* the other process has not committed its paper yet (it does so once: a paper
\* with committed candidates is marked processed)
OtherPending ==
    \A k \in 1..Len(store.occurrences) : store.occurrences[k].paper_id # Other

\* the one-record candidate lists of the other process's paper
OtherRecords(w) == {<<r>> : r \in {c \in Records(w) : c.has_name}}

\* this session has written no row into its transaction yet (it has only
\* queried, and added objects that are still pending), so that it holds no
\* lock that keeps the other process from committing
NothingFlushed ==
    /\ session.concepts = store.concepts
    /\ session.relations = store.relations
    /\ session.occurrences = store.occurrences

\* the queries of a session read the rows committed by now; its pending
\* objects stay
SeesCommitted(s, st) ==
    [OpenSession(st) EXCEPT !.new_relations = s.new_relations,
                            !.new_occurrences = s.new_occurrences]

\* the other process runs the with block of process_and_store_concepts for
\* its paper and commits, between two candidates of this process
OtherSessionCommits ==
    /\ workload = "concurrent"
    /\ pc = "storing"
    /\ OtherPending
    /\ NothingFlushed
    /\ \E e \in OtherRecords(workload) :
          /\ store' = ProcessDocument(store, e, Other)
          /\ session' = SeesCommitted(session, store')
    /\ UNCHANGED <<workload, processed_at, pc, batch, paper, all_names,
                   concepts_data, i, stored_count, concept_count, attempts,
                   last_error>>

\* store_concept for a new name, with the other process committing a candidate
\* of the same name after this session's query found no row and before its
\* INSERT: the INSERT fails on the unique constraint, and the except branch
\* rolls back
StoreCandidateInterleaved ==
    /\ workload = "concurrent"
    /\ pc = "storing"
    /\ i <= Len(concepts_data)
    /\ OtherPending
    /\ NothingFlushed
    /\ FindConcept(session.concepts, concepts_data[i].name) = 0
    /\ \E e \in OtherRecords(workload) :
          /\ e[1].name = concepts_data[i].name
          /\ store' = ProcessDocument(store, e, Other)
          /\ UniqueViolation(store'.concepts, concepts_data[i].name)
          /\ session' = Rollback(session, store')
    /\ last_error' = "IntegrityError"
    /\ i' = i + 1
    /\ UNCHANGED <<workload, processed_at, pc, batch, paper, all_names,
                   concepts_data, stored_count, concept_count, attempts>>

NextRace ==
    \/ Next
    \/ OtherSessionCommits
    \/ StoreCandidateInterleaved

SpecRace == Init /\ [][NextRace]_vars

\* the paper whose extraction and storing can succeed; the others may fail in
\* every run
Target == NumPapers

\* main is run again and again and every step of the code ends; for the paper
\* Target the PDF is there, the extraction returns records, the session opens
\* and the commit succeeds, if not at once then at some later try
SpecLive ==
    /\ Init
    /\ [][Next]_vars
    /\ WF_vars(Next)
    /\ SF_vars(Extract /\ paper' = Target)
    /\ SF_vars(Deduplicate /\ paper = Target)
    /\ SF_vars(OpenDb /\ paper = Target)
    /\ SF_vars(Commit /\ paper = Target)

\* ============================================================== claims
Range(q) == 1..Len(q)

\* rows a commit of the session would make durable
AllRelations(s) == s.relations \o s.new_relations
AllOccurrences(s) == s.occurrences \o s.new_occurrences

OccurrencesOf(occurrences, p) ==
    Cardinality({k \in Range(occurrences) : occurrences[k].paper_id = p})

PairCount(relations, c1, c2) ==
    Cardinality({k \in Range(relations) :
                    /\ relations[k].concept1_id = c1
                    /\ relations[k].concept2_id = c2})

\* C1: once text_analyzer.main has finished with a paper, the paper is marked
\* processed if and only if an Occurrence of that paper is committed; no
\* failure path leaves it processed with nothing committed.
C1_ProcessedIffCommitted ==
    (pc = "loop" /\ paper # 0) =>
        (processed_at[paper] <=> OccurrencesOf(store.occurrences, paper) > 0)

\* C2: the Concept table never holds two rows with one name, in the committed
\* rows and in the open transaction, and no insert of an already-present name
\* is ever attempted (it would fail on the unique constraint).
C2_OneRowPerName ==
    /\ \A j, k \in Range(store.concepts) :
          store.concepts[j].name = store.concepts[k].name => j = k
    /\ \A j, k \in Range(session.concepts) :
          session.concepts[j].name = session.concepts[k].name => j = k
    /\ last_error # "IntegrityError"

\* a name met in two papers is resolved to one committed row
C2_Witness ==
    /\ Len(store.concepts) = 1
    /\ \E j, k \in Range(store.occurrences) :
          /\ store.occurrences[j].paper_id # store.occurrences[k].paper_id
          /\ store.occurrences[j].concept_id = 1
          /\ store.occurrences[k].concept_id = 1

\* C3: at most one committed ConceptRelation row exists per ordered
\* (concept1_id, concept2_id) pair.
C3_OneRelationPerPair ==
    \A j, k \in Range(store.relations) :
        (/\ store.relations[j].concept1_id = store.relations[k].concept1_id
         /\ store.relations[j].concept2_id = store.relations[k].concept2_id)
        => j = k

\* the step of StoreCandidate that stored candidate i without an exception
StoredStep ==
    /\ pc = "storing"
    /\ i <= Len(concepts_data)
    /\ stored_count' = stored_count + 1

\* C4: edges are directional and idempotent: a stored candidate naming source A
\* with the one related name B (a list of that one name) creates exactly one
\* A->B row when none exists and adds none when one exists (also when it was
\* committed by another paper); the rows of every other ordered pair, B->A
\* included, stay as they are, so B->A is a row of its own.
C4_DirectedIdempotent ==
    [][(/\ StoredStep
        /\ concepts_data[i].related_shape = "list"
        /\ Len(concepts_data[i].related_concepts) = 1
        /\ concepts_data[i].related_concepts[1] # "")
       => LET src == FindConcept(session'.concepts, concepts_data[i].name)
              tgt == FindConcept(session'.concepts,
                                 concepts_data[i].related_concepts[1])
              before == PairCount(AllRelations(session), src, tgt)
          IN /\ PairCount(AllRelations(session'), src, tgt) =
                    IF before = 0 THEN 1 ELSE before
             /\ \A a, b \in Range(session'.concepts) :
                    <<a, b>> # <<src, tgt>> =>
                        PairCount(AllRelations(session'), a, b) =
                        PairCount(AllRelations(session), a, b)]_vars

\* a second paper names A with related B while A->B and B->A are committed
C4_Witness ==
    /\ pc = "storing"
    /\ i = 2
    /\ stored_count = 1
    /\ concepts_data[1].name = "A"
    /\ concepts_data[1].related_concepts = <<"B">>
    /\ LET a == FindConcept(store.concepts, "A")
           b == FindConcept(store.concepts, "B")
       IN /\ a # 0
          /\ b # 0
          /\ PairCount(store.relations, a, b) = 1
          /\ PairCount(store.relations, b, a) = 1
          /\ PairCount(AllRelations(session), a, b) = 1
          /\ PairCount(AllRelations(session), b, a) = 1

\* C5: first-write-wins per field: a committed non-empty category or
\* description never changes; a stored candidate for an existing concept fills
\* a field that is empty and leaves a field that is non-empty.
C5_FirstWriteWins ==
    [][/\ \A k \in Range(store.concepts) :
             /\ store.concepts[k].category # "" =>
                    store'.concepts[k].category = store.concepts[k].category
             /\ store.concepts[k].description # "" =>
                    store'.concepts[k].description = store.concepts[k].description
       /\ StoredStep =>
             LET cd == concepts_data[i]
                 k == FindConcept(session.concepts, cd.name)
             IN k # 0 =>
                  /\ session'.concepts[k].category =
                        IF session.concepts[k].category # ""
                        THEN session.concepts[k].category
                        ELSE cd.category
                  /\ session'.concepts[k].description =
                        IF session.concepts[k].description # ""
                        THEN session.concepts[k].description
                        ELSE cd.description]_vars

\* a candidate with category "Networking" was stored for a concept that keeps
\* its category "Algorithms" and got its empty description filled
C5_Witness ==
    /\ pc = "storing"
    /\ i = 2
    /\ stored_count = 1
    /\ concepts_data[1].category = "Networking"
    /\ concepts_data[1].description = "d2"
    /\ LET k == FindConcept(store.concepts, concepts_data[1].name)
       IN /\ k # 0
          /\ store.concepts[k].category = "Algorithms"
          /\ store.concepts[k].description = ""
          /\ session.concepts[k].category = "Algorithms"
          /\ session.concepts[k].description = "d2"

\* C6: a paper with 3 candidates whose second has an empty name ends with
\* exactly 2 committed Occurrence rows and is marked processed.
C6_PartialFailureIsolation ==
    (/\ pc = "loop"
     /\ paper # 0
     /\ concept_count > 0
     /\ Len(concepts_data) = 3
     /\ concepts_data[1].name # ""
     /\ concepts_data[2].name = ""
     /\ concepts_data[3].name # "")
    => /\ OccurrencesOf(store.occurrences, paper) = 2
       /\ processed_at[paper]

\* C7: a paper whose every candidate has an empty name ends with no Concept
\* and no Occurrence row for it, a returned count of 0 and an unset flag.
C7_AllRejectStaysUnprocessed ==
    (/\ pc \in {"mark", "loop"}
     /\ paper # 0
     /\ Len(concepts_data) > 0
     /\ i > Len(concepts_data)
     /\ \A k \in Range(concepts_data) : concepts_data[k].name = "")
    => /\ concept_count = 0
       /\ ~processed_at[paper]
       /\ OccurrencesOf(store.occurrences, paper) = 0
       /\ FindConcept(store.concepts, "") = 0

\* C8: no ConceptRelation row, committed or in the open transaction, has
\* concept1_id equal to concept2_id.
C8_NoSelfLoop ==
    /\ \A k \in Range(store.relations) :
          store.relations[k].concept1_id # store.relations[k].concept2_id
    /\ \A k \in Range(AllRelations(session)) :
          AllRelations(session)[k].concept1_id # AllRelations(session)[k].concept2_id

\* C9: no Concept, committed or in the open transaction, has
\* parent_concept_id equal to its own id.
C9_NoSelfParent ==
    /\ \A k \in Range(store.concepts) : store.concepts[k].parent_concept_id # k
    /\ \A k \in Range(session.concepts) : session.concepts[k].parent_concept_id # k

\* C10: every Occurrence row has its confidence within [0.0, 1.0], and the row
\* added for a stored candidate with a numeric confidence holds 1.0 for a value
\* above 1.0, 0.0 for a value below 0.0 and the value itself otherwise.
C10_ConfidenceClamped ==
    [][/\ \A k \in Range(store'.occurrences) :
             /\ store'.occurrences[k].confidence >= 0
             /\ store'.occurrences[k].confidence <= 10
       /\ \A k \in Range(AllOccurrences(session')) :
             /\ AllOccurrences(session')[k].confidence >= 0
             /\ AllOccurrences(session')[k].confidence <= 10
       /\ (StoredStep /\ concepts_data[i].confidence.t = "num") =>
             LET v == concepts_data[i].confidence.v
                 rows == AllOccurrences(session')
             IN /\ Len(rows) = Len(AllOccurrences(session)) + 1
                /\ rows[Len(rows)].paper_id = paper
                /\ rows[Len(rows)].confidence =
                      IF v > 10 THEN 10 ELSE IF v < 0 THEN 0 ELSE v]_vars

\* a paper's candidates with confidence 1.5 and -0.3 are committed as 1.0 and 0.0
C10_Witness ==
    /\ pc = "mark"
    /\ concept_count = 2
    /\ Len(concepts_data) = 2
    /\ concepts_data[1].confidence = Num(15)
    /\ concepts_data[2].confidence = Num(0 - 3)
    /\ Len(store.occurrences) = 2
    /\ store.occurrences[1].confidence = 10
    /\ store.occurrences[2].confidence = 0

\* C11: a candidate whose confidence field is absent or is not a number is
\* stored without an error, and its Occurrence row holds the default 0.8.
C11_DefaultConfidence ==
    (/\ pc = "storing"
     /\ i > 1
     /\ concepts_data[i - 1].confidence.t \in {"absent", "str"}) =>
        LET rows == AllOccurrences(session)
        IN /\ last_error = ""
           /\ Len(rows) > 0
           /\ rows[Len(rows)].paper_id = paper
           /\ rows[Len(rows)].confidence = 8

\* C12: a failure caught for one candidate discards none of the rows written
\* for the candidates of the paper stored before it: the session holds one
\* Occurrence row of the paper for every candidate counted as stored.
C12_FailureKeepsEarlierWork ==
    pc = "storing" =>
        OccurrencesOf(AllOccurrences(session), paper)
            - OccurrencesOf(store.occurrences, paper) = stored_count

\* C13: when the extraction raises or returns an empty list, the call opens no
\* database transaction, writes no row and returns 0, and the step of main that
\* follows leaves the paper's processed flag as it was.
C13_NoExtractionNoWrites ==
    [][/\ (pc = "extracting" /\ pc' = "mark") =>
             /\ concepts_data' = <<>>
             /\ session' = session
             /\ store' = store
             /\ concept_count' = 0
             /\ processed_at' = processed_at
       /\ (pc = "mark" /\ concepts_data = <<>>) =>
             /\ store' = store
             /\ processed_at' = processed_at]_vars

\* a paper whose extraction gave nothing is back in the loop, unprocessed and
\* without rows, after another paper has been committed
C13_Witness ==
    /\ pc = "loop"
    /\ paper # 0
    /\ attempts > 0
    /\ concepts_data = <<>>
    /\ last_error = "KeyError: 'confidence'"
    /\ ~processed_at[paper]
    /\ OccurrencesOf(store.occurrences, paper) = 0
    /\ Len(store.occurrences) > 0

\* C14: when the final commit fails, nothing of the paper becomes committed,
\* the call returns 0 and the paper's processed flag stays as it was; before the
\* final commit no write of the paper is committed either.
C14_CommitFailureRollsBack ==
    [][/\ (pc \in {"extracting", "storing"} /\ store' # store) =>
             /\ pc = "storing"
             /\ pc' = "mark"
             /\ store' = Committed(session)
       /\ (pc = "storing" /\ pc' = "mark" /\ store' # Committed(session)) =>
             /\ store' = store
             /\ session' = OpenSession(store)
             /\ concept_count' = 0
       /\ (pc = "mark" /\ concept_count = 0) =>
             processed_at' = processed_at]_vars

\* a paper with two stored candidates whose commit failed is back in the loop,
\* unprocessed and without committed rows
C14_Witness ==
    /\ pc = "loop"
    /\ paper # 0
    /\ stored_count = 2
    /\ concept_count = 0
    /\ last_error = ""
    /\ ~processed_at[paper]
    /\ OccurrencesOf(store.occurrences, paper) = 0
    /\ session = OpenSession(store)

\* C15: a record without a name field is rejected on its own and the paper does
\* not fail as a whole: when such a record was met after records with a
\* non-empty name, those are still stored, counted and committed.
C15_NamelessRejectedAlone ==
    (/\ pc = "mark"
     /\ last_error = "KeyError: 'name'"
     /\ all_names \ {""} # {}) =>
        /\ concept_count > 0
        /\ OccurrencesOf(store.occurrences, paper) > 0

\* C16: a processed paper stays processed, no later run of main selects it
\* (neither into the batch nor as the current paper), and it gains no further
\* committed Occurrence row.
C16_ProcessedStays ==
    [][\A p \in Papers :
          processed_at[p] =>
             /\ processed_at'[p]
             /\ OccurrencesOf(store'.occurrences, p) =
                   OccurrencesOf(store.occurrences, p)
             /\ (pc = "idle" /\ pc' = "loop") =>
                   \A k \in Range(batch') : batch'[k] # p
             /\ paper' # paper => paper' # p]_vars

\* a later run of main has selected its batch while a paper processed by an
\* earlier run holds committed Occurrence rows
C16_Witness ==
    /\ pc = "loop"
    /\ paper = 0
    /\ attempts > 0
    /\ batch # <<>>
    /\ \E p \in Papers :
          /\ processed_at[p]
          /\ OccurrencesOf(store.occurrences, p) > 0
          /\ \A k \in Range(batch) : batch[k] # p

\* C17: the parent link is first-write-wins: a committed Concept row that has a
\* parent (another row) keeps that parent in every later step, whatever parent
\* a later candidate names for it.
C17_ParentFirstWriteWins ==
    [][\A k \in Range(store.concepts) :
          store.concepts[k].parent_concept_id \notin {0, k} =>
             store'.concepts[k].parent_concept_id =
                store.concepts[k].parent_concept_id]_vars

\* C18: wherever the pipeline is stopped, a paper that is not marked processed
\* has no committed Occurrence row, and so a run after the stop never commits a
\* second Occurrence row of a paper for a concept that already has one.
C18_AllOrNothingAcrossStop ==
    /\ pc = "idle" =>
          \A p \in Papers :
             ~processed_at[p] => OccurrencesOf(store.occurrences, p) = 0
    /\ \A j, k \in Range(store.occurrences) :
          (/\ j # k
           /\ store.occurrences[j].paper_id = store.occurrences[k].paper_id) =>
             store.occurrences[j].concept_id # store.occurrences[k].concept_id

\* C19: the count that process_and_store_concepts returns equals the number of
\* Occurrence rows that the call has committed for the paper.
C19_CountIsCommittedRows ==
    [][(pc = "storing" /\ pc' = "mark") =>
          concept_count' = OccurrencesOf(store'.occurrences, paper)
                              - OccurrencesOf(store.occurrences, paper)]_vars

\* C20: names are matched case-sensitively everywhere: when every candidate of
\* a paper was stored and committed, each name that the extraction returned,
\* names differing only in letter case included, has a Concept row of exactly
\* that name with an Occurrence row of the paper.
C20_CaseSensitiveNames ==
    (/\ pc = "mark"
     /\ concept_count > 0
     /\ stored_count = Len(concepts_data)) =>
        \A n \in all_names :
           \E k \in Range(store.occurrences) :
              /\ store.occurrences[k].paper_id = paper
              /\ store.concepts[store.occurrences[k].concept_id].name = n

\* the related names of a candidate taken as whole names: the string itself
\* for a single string, the distinct non-empty entries for a list
WholeNames(cd) ==
    IF cd.related_shape = "absent" THEN {}
    ELSE SeqToSet(cd.related_concepts) \ {""}

\* C21: related_concepts is handled as a set of whole names whatever its shape:
\* after a candidate is stored, every whole name (the string itself for a
\* single string, each distinct non-empty entry of a list) is a Concept that
\* the candidate's concept has exactly one edge to, and the candidate has added
\* no more edges than it has whole names (none when the field is absent).
\* Lists that repeat a name are C3's case and are left out.
C21_RelatedNamesAsSet ==
    [][(/\ StoredStep
        /\ concepts_data[i].related_shape = "list" =>
              Cardinality(SeqToSet(concepts_data[i].related_concepts)) =
                 Len(concepts_data[i].related_concepts)) =>
          LET cd == concepts_data[i]
              cid == FindConcept(session'.concepts, cd.name)
              rows == AllRelations(session')
          IN /\ \A n \in WholeNames(cd) :
                   LET rid == FindConcept(session'.concepts, n)
                   IN /\ rid # 0
                      /\ PairCount(rows, cid, rid) = 1
             /\ Len(rows) - Len(AllRelations(session))
                   <= Cardinality(WholeNames(cd))]_vars

\* the names of the Concept rows of a store
Names(st) == {st.concepts[k].name : k \in Range(st.concepts)}

\* deduplicated candidate lists of one record that another document of the
\* workload can give
OtherDocuments(w) == {<<r>> : r \in {c \in Records(w) : c.has_name}}

\* C22: for the document being stored and every other document (of another
\* paper), the set of Concept names committed after both are processed is the
\* same whichever of the two is processed first; the rows that the steps of
\* the model commit for a document are the ones ProcessDocument computes.
C22_NamesCommute ==
    pc = "storing" =>
       /\ Committed(StoreFrom(session, store, concepts_data, paper, i)) =
             ProcessDocument(store, concepts_data, paper)
       /\ i = 1 =>
             LET q == CHOOSE x \in Papers : x # paper
                 mine == ProcessDocument(store, concepts_data, paper)
             IN \A e \in OtherDocuments(workload) :
                   Names(ProcessDocument(mine, e, q)) =
                   Names(ProcessDocument(
                            ProcessDocument(store, e, q), concepts_data, paper))

\* a document is about to be stored on a store that already holds concepts,
\* and there is another document such that each of the two adds a name that
\* the other does not
C22_Witness ==
    /\ pc = "storing"
    /\ i = 1
    /\ store.concepts # <<>>
    /\ \E e \in OtherDocuments(workload) :
          LET mine == Names(ProcessDocument(store, concepts_data, paper))
              other == Names(ProcessDocument(store, e, paper))
          IN /\ mine \ (other \cup Names(store)) # {}
             /\ other \ (mine \cup Names(store)) # {}

\* every reference of the given rows is the id of one of the given concepts
References(concepts, relations, occurrences) ==
    /\ \A k \in Range(relations) :
          /\ relations[k].concept1_id \in Range(concepts)
          /\ relations[k].concept2_id \in Range(concepts)
    /\ \A k \in Range(occurrences) :
          occurrences[k].concept_id \in Range(concepts)
    /\ \A k \in Range(concepts) :
          concepts[k].parent_concept_id \in {0} \cup Range(concepts)

\* C23: candidates are processed in the order of the extraction list, and after
\* every step each ConceptRelation endpoint, each Occurrence.concept_id and
\* each parent_concept_id that is set refers to an existing Concept row, in the
\* committed store and among the flushed and pending rows of the session, also
\* after a rollback for one candidate.
C23_ReferencesExist ==
    [][/\ References(store'.concepts, store'.relations, store'.occurrences)
       /\ References(session'.concepts, AllRelations(session'),
                     AllOccurrences(session'))
       /\ (pc = "storing" /\ pc' = "storing") =>
             /\ i' = i + 1
             /\ concepts_data' = concepts_data]_vars

\* a paper is committed with a candidate stored after an earlier candidate of
\* the paper failed and was rolled back
C23_Witness ==
    /\ pc = "mark"
    /\ concept_count > 0
    /\ stored_count < Len(concepts_data)
    /\ last_error = ""
    /\ OccurrencesOf(store.occurrences, paper) > 0

\* C24: a systemic storage failure (the session cannot be opened) halts the
\* batch: after it, process_and_store_concepts is not called for a further
\* paper of the batch.
C24_SystemicFailureHalts ==
    [][(pc = "loop" /\ last_error = "OperationalError") =>
          pc' # "extracting"]_vars

\* C25: a committed ConceptRelation is never deleted and never changed and has
\* relation_type "related" and strength 1.0, also when its ordered pair is met
\* again by a later candidate; a committed Concept row is never deleted.
C25_RelationsImmutable ==
    [][/\ Len(store'.relations) >= Len(store.relations)
       /\ \A k \in Range(store.relations) :
             store'.relations[k] = store.relations[k]
       /\ \A k \in Range(store'.relations) :
             /\ store'.relations[k].relation_type = "related"
             /\ store'.relations[k].strength = 10
       /\ Len(store'.concepts) >= Len(store.concepts)
       /\ \A k \in Range(store.concepts) :
             store'.concepts[k].name = store.concepts[k].name]_vars

\* a candidate A naming B has been stored while the edge from A to B was
\* already committed, and the session holds the committed relations and no other
C25_Witness ==
    /\ pc = "storing"
    /\ i = 2
    /\ stored_count = 1
    /\ concepts_data[1].name = "A"
    /\ RelatedNames(concepts_data[1]) = <<"B">>
    /\ store.relations # <<>>
    /\ PairCount(store.relations, FindConcept(store.concepts, "A"),
                 FindConcept(store.concepts, "B")) = 1
    /\ AllRelations(session) = store.relations

\* the contexts that a joined context is made of
Paragraphs(context) == {<<context[k]>> : k \in Range(context)}

\* the joined context as a whole
Whole(context) == {context}

\* the list new is the list old with the record c folded in: appended unchanged
\* when its lower-cased name is new, and otherwise merged into the record of
\* that name, which keeps its place and its other fields, takes the larger
\* confidence and the union of the related names, and has c's context joined
\* to its own unless c's context is already known: one of its paragraphs when
\* byParagraph, and otherwise only the whole of it
Deduplicated(old, new, c, byParagraph) ==
    LET same == {k \in Range(old) : Lower(old[k].name) = Lower(c.name)}
        known(context) == IF byParagraph THEN Paragraphs(context)
                          ELSE Whole(context)
    IN IF same = {} THEN new = Append(old, c)
       ELSE /\ Len(new) = Len(old)
            /\ \A k \in Range(old) \ same : new[k] = old[k]
            /\ \A k \in same :
                  /\ new[k].confidence =
                        Num(Max2(old[k].confidence.v, c.confidence.v))
                  /\ SeqToSet(new[k].related_concepts) =
                        SeqToSet(old[k].related_concepts)
                           \cup SeqToSet(c.related_concepts)
                  /\ Len(new[k].related_concepts) =
                        Cardinality(SeqToSet(new[k].related_concepts))
                  /\ new[k].context =
                        IF c.context \in known(old[k].context)
                        THEN old[k].context
                        ELSE old[k].context \o c.context
                  /\ new[k] = [old[k] EXCEPT
                                  !.confidence = new[k].confidence,
                                  !.related_concepts = new[k].related_concepts,
                                  !.context = new[k].context]

\* a step of _deduplicate_concepts that reads a record without an error, in a
\* workload of records with a numeric confidence and a list of related names
DeduplicateOk ==
    /\ pc = "extracting"
    /\ pc' = "extracting"
    /\ \A c \in Records(workload) :
          c.confidence.t = "num" /\ c.related_shape = "list"

C27_EventuallyProcessed ==
    workload = "limited" => <>processed_at[Target]

\* the Concept reached from k by following parent_concept_id n times, 0 when
\* the chain ends before
RECURSIVE Climb(_, _, _)
Climb(concepts, k, n) ==
    IF n = 0 \/ k = 0 THEN k
    ELSE Climb(concepts, concepts[k].parent_concept_id, n - 1)

\* C28: the parent references of the committed Concepts form a forest:
\* following them from a Concept never leads back to it through another
\* Concept (no cycle of length two or more).
C28_ParentsFormForest ==
    \A k \in Range(store.concepts) :
       \A n \in 2..Len(store.concepts) :
          Climb(store.concepts, k, 1) # k =>
             Climb(store.concepts, k, n) # k

\* C29: when another process consolidates a document in a session of its own
\* and its find-then-create sequences interleave with this one's, the
\* committed store still never holds two Concept rows with the same name nor
\* two ConceptRelation rows for the same ordered pair (candidates that do not
\* repeat a related name).
C29_NoDuplicatesUnderRace ==
    workload = "concurrent" =>
       /\ \A j, k \in Range(store.concepts) :
             store.concepts[j].name = store.concepts[k].name => j = k
       /\ \A j, k \in Range(store.relations) :
             (/\ store.relations[j].concept1_id = store.relations[k].concept1_id
              /\ store.relations[j].concept2_id = store.relations[k].concept2_id)
                => j = k

====
